---- MODULE Spec2Model ----
(***************************************************************************)
(* A model of the gex shell's command parser (package cli) and executor    *)
(* (package executor).                                                     *)
(*                                                                         *)
(* A string is a sequence of characters and a character is a one-character *)
(* string.  In the lines used for executor runs a run of ordinary          *)
(* characters (letters, digits, '.'), which no scanner branch tells apart, *)
(* is abbreviated to one element ("printf").  Positions are the Go         *)
(* zero-based byte offsets: p.input[p.pos] is input[pos + 1].              *)
(***************************************************************************)
EXTENDS Integers, Sequences, FiniteSets, TLC

VARIABLES
    parser,     \* the cli.Parser of a parser run
    sh,         \* the shell process: main's loop, the Executor's frame, the Session
    os          \* what the shell acts on: child processes, pipes, files, the terminal

vars == <<parser, sh, os>>

----------------------------------------------------------------------------
(* Characters                                                              *)

DQ == "\""
SQ == "'"
BS == "\\"
NUL == "NUL"

IsSpace(ch) == ch \in {" ", "\t"}

----------------------------------------------------------------------------
(* package cli: Command, Redirect                                          *)

NilRedirect == [Type |-> "nil", Target |-> <<>>]

Redirect(type, target) == [Type |-> type, Target |-> target]

NilCommand == [Name |-> <<>>, Args |-> <<>>, Pipes |-> <<>>,
               Redirect |-> NilRedirect, Background |-> FALSE, nil |-> TRUE]

EmptyCommand == [Name |-> <<>>, Args |-> <<>>, Pipes |-> <<>>,
                 Redirect |-> NilRedirect, Background |-> FALSE, nil |-> FALSE]

NoError == "nil"

----------------------------------------------------------------------------
(* package cli: Parser helpers                                             *)

current(p) == IF p.pos >= p.length THEN NUL ELSE p.input[p.pos + 1]

peek(p) == current(p)

\* an advance that does not step over a double quote
advanceExceptOverQuote(p) ==
    IF p.pos < p.length /\ p.input[p.pos + 1] # DQ THEN [p EXCEPT !.pos = p.pos + 1] ELSE p

advance(p) == IF p.pos < p.length THEN [p EXCEPT !.pos = p.pos + 1] ELSE p

RECURSIVE skipWhitespace(_)
skipWhitespace(p) ==
    IF p.pos < p.length /\ IsSpace(p.input[p.pos + 1])
    THEN skipWhitespace([p EXCEPT !.pos = p.pos + 1])
    ELSE p

RECURSIVE RedirectTargetLoop(_, _)
RedirectTargetLoop(p, result) ==
    IF p.pos < p.length
    THEN LET ch == current(p) IN
         IF IsSpace(ch) \/ ch = "|" \/ ch = "&"
         THEN [p |-> p, target |-> result]
         ELSE RedirectTargetLoop(advance(p), Append(result, ch))
    ELSE [p |-> p, target |-> result]

parseRedirectTarget(p0) ==
    LET p == skipWhitespace(p0) IN
    IF p.pos >= p.length
    THEN [p |-> p, target |-> <<>>]
    ELSE RedirectTargetLoop(p, <<>>)

WithTarget(p, type) ==
    LET t == parseRedirectTarget(p) IN
    [p |-> t.p, redirect |-> Redirect(type, t.target)]

parseRedirect(p) ==
    IF p.pos >= p.length
    THEN [p |-> p, redirect |-> NilRedirect]
    ELSE LET ch == current(p) IN
         CASE ch = ">" ->
                LET p1 == advance(p) IN
                IF p1.pos < p1.length /\ current(p1) = ">"
                THEN WithTarget(advance(p1), "RedirectAppend")
                ELSE WithTarget(p1, "RedirectOut")
           [] ch = "<" -> WithTarget(advance(p), "RedirectIn")
           [] ch = "2" /\ p.pos + 1 < p.length /\ p.input[p.pos + 2] = ">" ->
                WithTarget(advance(advance(p)), "RedirectErr")
           [] ch = "&" /\ p.pos + 1 < p.length /\ p.input[p.pos + 2] = ">" ->
                WithTarget(advance(advance(p)), "RedirectBoth")
           [] OTHER -> [p |-> p, redirect |-> NilRedirect]

----------------------------------------------------------------------------
(* package cli: the parser as a step machine.  p.pc names the place the    *)
(* parser is at; result, quoted and quoteChar are the locals of            *)
(* parseToken, ret the call site parseToken returns to, head whether the   *)
(* running parseSimpleCommand is parseCommand's first call.                *)

NewParser(input) ==
    [input |-> input, pos |-> 0, length |-> Len(input), pc |-> "Parse",
     cmd |-> NilCommand, cur |-> EmptyCommand, head |-> TRUE,
     result |-> <<>>, quoted |-> FALSE, quoteChar |-> NUL, ret |-> "name",
     err |-> NoError]

Fail(p, msg) == [p EXCEPT !.pc = "error", !.err = msg, !.cmd = NilCommand]

\* Parse: lines 43-55
Parse(p) ==
    IF p.input = <<>>
    THEN Fail(p, "empty command")
    ELSE [p EXCEPT !.pc = "parseSimpleCommand", !.head = TRUE]

\* parseSimpleCommand up to its call of parseToken for the name: lines 81-91
parseSimpleCommand(p0) ==
    LET p == skipWhitespace(p0) IN
    IF p.pos >= p.length
    THEN Fail(p, "unexpected end of input")
    ELSE [p EXCEPT !.cur = EmptyCommand, !.pc = "parseToken", !.ret = "name"]

\* parseToken up to its loop: lines 137-146
parseToken(p0) ==
    LET p == skipWhitespace(p0) IN
    IF p.pos >= p.length
    THEN Fail(p, "unexpected end of input")
    ELSE [p EXCEPT !.result = <<>>, !.quoted = FALSE, !.quoteChar = NUL,
                   !.pc = "tokenLoop"]

\* parseToken after its loop, and the caller's use of the token:
\* lines 186-195, 92-95, 127-130
\* the end of parseToken without the test of the empty token
TokenEndAllowingEmpty(p) ==
    IF p.quoted
    THEN Fail(p, "unterminated quote")
    ELSE IF p.ret = "name"
    THEN [p EXCEPT !.cur.Name = p.result, !.pc = "args"]
    ELSE [p EXCEPT !.cur.Args = Append(p.cur.Args, p.result), !.pc = "args"]

\* the end of parseToken without the test of the open quote
TokenEndIgnoringQuote(p) ==
    IF p.result = <<>>
    THEN Fail(p, "empty token")
    ELSE IF p.ret = "name"
    THEN [p EXCEPT !.cur.Name = p.result, !.pc = "args"]
    ELSE [p EXCEPT !.cur.Args = Append(p.cur.Args, p.result), !.pc = "args"]

TokenEnd(p) ==
    IF p.quoted
    THEN Fail(p, "unterminated quote")
    ELSE IF p.result = <<>>
    THEN Fail(p, "empty token")
    ELSE IF p.ret = "name"
    THEN [p EXCEPT !.cur.Name = p.result, !.pc = "args"]
    ELSE [p EXCEPT !.cur.Args = Append(p.cur.Args, p.result), !.pc = "args"]

\* one iteration of parseToken's loop: lines 148-184
TokenLoop(p) ==
    IF p.pos < p.length
    THEN LET ch == current(p) IN
         IF ~p.quoted /\ (ch = DQ \/ ch = SQ)
         THEN advance([p EXCEPT !.quoted = TRUE, !.quoteChar = ch])
         ELSE IF p.quoted /\ ch = p.quoteChar
         THEN advance([p EXCEPT !.quoted = FALSE, !.quoteChar = NUL])
         ELSE IF ch = BS /\ p.pos + 1 < p.length
         THEN LET p1 == advance(p) IN
              advance([p1 EXCEPT !.result = Append(p.result, current(p1))])
         ELSE IF ~p.quoted /\ (IsSpace(ch) \/ ch = "|" \/ ch = ">" \/ ch = "<" \/ ch = "&")
         THEN TokenEnd(p)
         ELSE advance([p EXCEPT !.result = Append(p.result, ch)])
    ELSE TokenEnd(p)

\* parseSimpleCommand returns cmd to parseCommand: lines 133, 59-62, 69-74
\* a parseCommand that kept only the latest successor
ReturnSimpleReplacing(p) ==
    IF p.head
    THEN [p EXCEPT !.cmd = p.cur, !.pc = "pipes"]
    ELSE [p EXCEPT !.cmd.Pipes = <<p.cur>>, !.pc = "pipes"]

ReturnSimple(p) ==
    IF p.head
    THEN [p EXCEPT !.cmd = p.cur, !.pc = "pipes"]
    ELSE [p EXCEPT !.cmd.Pipes = Append(p.cmd.Pipes, p.cur), !.pc = "pipes"]

\* one iteration of parseSimpleCommand's loop: lines 98-131
ArgsLoop(p0) ==
    IF p0.pos < p0.length
    THEN LET p == skipWhitespace(p0) IN
         IF p.pos >= p.length
         THEN ReturnSimple(p)
         ELSE LET ch == peek(p) IN
              IF ch = "&" /\ p.pos = p.length - 1
              THEN ReturnSimple(advance([p EXCEPT !.cur.Background = TRUE]))
              ELSE IF ch = "|"
              THEN ReturnSimple(p)
              ELSE LET r == parseRedirect(p) IN
                   IF r.redirect # NilRedirect
                   THEN [r.p EXCEPT !.cur.Redirect = r.redirect]
                   ELSE [p EXCEPT !.pc = "parseToken", !.ret = "arg"]
    ELSE ReturnSimple(p0)

\* one iteration of parseCommand's loop: lines 64-77
parseCommand(p) ==
    IF p.pos < p.length /\ peek(p) = "|"
    THEN [skipWhitespace(advance(p)) EXCEPT !.pc = "parseSimpleCommand", !.head = FALSE]
    ELSE [p EXCEPT !.pc = "done"]

ParserStep(p) ==
    CASE p.pc = "Parse" -> Parse(p)
      [] p.pc = "parseSimpleCommand" -> parseSimpleCommand(p)
      [] p.pc = "parseToken" -> parseToken(p)
      [] p.pc = "tokenLoop" -> TokenLoop(p)
      [] p.pc = "args" -> ArgsLoop(p)
      [] p.pc = "pipes" -> parseCommand(p)
      [] OTHER -> p

RECURSIVE RunParser(_)
RunParser(p) == IF p.pc \in {"done", "error"} THEN p ELSE RunParser(ParserStep(p))

\* cli.Parse(input) run to its return: the Command (NilCommand on failure) and the error
ParseLine(input) ==
    LET p == RunParser(NewParser(input)) IN [cmd |-> p.cmd, err |-> p.err]

----------------------------------------------------------------------------
(* Parser runs: one input, scanned to the end                              *)

MaxLen == 4
MaxPipeLen == 7
MaxQuoteLen == 6

Alphabet == {"a", " ", "|", ">", "<", "&", "2", DQ, SQ, BS}
PipeAlphabet == {"a", " ", "|"}
QuoteAlphabet == {"a", " ", "|", ">", DQ}

StringsUpTo(A, n) == UNION {[1..k -> A] : k \in 0..n}

ParserInputs ==
    StringsUpTo(Alphabet, MaxLen) \cup StringsUpTo(PipeAlphabet, MaxPipeLen)
        \cup StringsUpTo(QuoteAlphabet, MaxQuoteLen)

ParserInit ==
    /\ \E input \in ParserInputs : parser = NewParser(input)
    /\ sh = [mainpc |-> "idle"]
    /\ os = [term |-> <<>>]

DoParse ==
    /\ parser.pc = "Parse"
    /\ parser' = Parse(parser)
    /\ UNCHANGED <<sh, os>>

DoParseSimpleCommand ==
    /\ parser.pc = "parseSimpleCommand"
    /\ parser' = parseSimpleCommand(parser)
    /\ UNCHANGED <<sh, os>>

DoParseToken ==
    /\ parser.pc = "parseToken"
    /\ parser' = parseToken(parser)
    /\ UNCHANGED <<sh, os>>

DoTokenLoop ==
    /\ parser.pc = "tokenLoop"
    /\ parser' = TokenLoop(parser)
    /\ UNCHANGED <<sh, os>>

DoArgsLoop ==
    /\ parser.pc = "args"
    /\ parser' = ArgsLoop(parser)
    /\ UNCHANGED <<sh, os>>

DoParseCommand ==
    /\ parser.pc = "pipes"
    /\ parser' = parseCommand(parser)
    /\ UNCHANGED <<sh, os>>

ParserNext ==
    \/ DoParse
    \/ DoParseSimpleCommand
    \/ DoParseToken
    \/ DoTokenLoop
    \/ DoArgsLoop
    \/ DoParseCommand

ParserSpec == ParserInit /\ [][ParserNext]_vars

\* Parse runs on one thread, which takes its next step while it has one
ParserFairSpec == ParserSpec /\ WF_vars(ParserNext)

----------------------------------------------------------------------------
(* Strings of the executor                                                 *)

Word(w) == <<w>>

Range(seq) == {seq[k] : k \in 1..Len(seq)}

\* strings.Split(s, sep) for a one-character sep
RECURSIVE SplitFrom(_, _, _)
SplitFrom(s, sep, acc) ==
    IF s = <<>> THEN <<acc>>
    ELSE IF Head(s) = sep
    THEN <<acc>> \o SplitFrom(Tail(s), sep, <<>>)
    ELSE SplitFrom(Tail(s), sep, Append(acc, Head(s)))

Split(s, sep) == SplitFrom(s, sep, <<>>)

RECURSIVE DropEmpty(_)
DropEmpty(seqs) ==
    IF seqs = <<>> THEN <<>>
    ELSE IF Head(seqs) = <<>> THEN DropEmpty(Tail(seqs))
    ELSE <<Head(seqs)>> \o DropEmpty(Tail(seqs))

\* strings.Fields(s)
Fields(s) ==
    DropEmpty(SplitFrom([k \in 1..Len(s) |-> IF IsSpace(s[k]) THEN " " ELSE s[k]], " ", <<>>))

\* strings.Join(args, " ")
RECURSIVE Join(_)
Join(args) ==
    IF args = <<>> THEN <<>>
    ELSE IF Len(args) = 1 THEN Head(args)
    ELSE Head(args) \o <<" ">> \o Join(Tail(args))

\* strings.TrimSpace(s)
RECURSIVE TrimLeft(_)
TrimLeft(s) == IF s # <<>> /\ IsSpace(Head(s)) THEN TrimLeft(Tail(s)) ELSE s

RECURSIVE TrimRight(_)
TrimRight(s) ==
    IF s # <<>> /\ IsSpace(s[Len(s)]) THEN TrimRight(SubSeq(s, 1, Len(s) - 1)) ELSE s

TrimSpace(s) == TrimRight(TrimLeft(s))

EmptyMap == [x \in {} |-> <<>>]

MapSet(m, k, v) == [x \in DOMAIN m \cup {k} |-> IF x = k THEN v ELSE m[x]]

MapRemove(m, k) == [x \in DOMAIN m \ {k} |-> m[x]]

\* errors are their messages; nil is the empty message
NilError == <<>>

----------------------------------------------------------------------------
(* The operating system the shell runs on: file descriptors, pipes, files, *)
(* the terminal and the child processes.                                   *)

NilFd == [kind |-> "nil", pipe |-> 0, end |-> "", path |-> <<>>]
Stdin == [kind |-> "tty", pipe |-> 0, end |-> "stdin", path |-> <<>>]
Stdout == [kind |-> "tty", pipe |-> 0, end |-> "stdout", path |-> <<>>]
Stderr == [kind |-> "tty", pipe |-> 0, end |-> "stderr", path |-> <<>>]
DevNull == [kind |-> "null", pipe |-> 0, end |-> "", path |-> <<>>]
PipeFd(id, end) == [kind |-> "pipe", pipe |-> id, end |-> end, path |-> <<>>]
FileFd(path, end) == [kind |-> "file", pipe |-> 0, end |-> end, path |-> path]

\* the shell process as a holder of pipe ends; a child holds them under its pid
ShellPid == 0

\* the files of the system that carry an execute bit, and the one among them
\* that exec refuses (no valid program image); "notes" is a regular file
\* without execute bit and so in neither set
Bin(name) == <<"/", "bin", "/", name>>
ExecutableFiles == {Bin("printf"), Bin("tr"), Bin("sleep"), Bin("false"), Bin("broken")}
RegularFiles == ExecutableFiles \cup {Bin("notes")}
BadImages == {Bin("broken")}
Directories == {<<"/">>, <<"/", "bin">>, <<"/", "home">>}

InitialEnv ==
    MapSet(MapSet(EmptyMap, Word("PATH"), <<":", "/", "usr", "/", "bin", ":", "/", "bin">>),
           Word("HOME"), <<"/", "home">>)

InitialOS ==
    [procs |-> <<>>, kpipes |-> <<>>, files |-> EmptyMap, term |-> <<>>,
     env |-> InitialEnv, cwd |-> <<"/", "home">>]

\* os.Getenv(key)
Getenv(o, key) == IF key \in DOMAIN o.env THEN o.env[key] ELSE <<>>

\* a write to the terminal: what it is, its text, and the process it is about
TermLine(kind, data, pid) == [kind |-> kind, data |-> data, pid |-> pid]

\* fmt.Print to the shell's own standard output
PrintShell(o, kind, data) == [o EXCEPT !.term = Append(o.term, TermLine(kind, data, 0))]

PrintJob(o, kind, data, pid) == [o EXCEPT !.term = Append(o.term, TermLine(kind, data, pid))]

\* os.Pipe(): a fresh pipe, both ends held by the shell
OsPipe(o) ==
    [o EXCEPT !.kpipes = Append(o.kpipes, [buf |-> <<>>, r |-> {ShellPid}, w |-> {ShellPid}])]

\* holder gets (a duplicate of) the pipe end fd
Hold(kp, fd, holder) ==
    IF fd.kind # "pipe" THEN kp
    ELSE IF fd.end = "r"
    THEN [kp EXCEPT ![fd.pipe].r = @ \cup {holder}]
    ELSE [kp EXCEPT ![fd.pipe].w = @ \cup {holder}]

\* holder closes its pipe end fd
Release(kp, fd, holder) ==
    IF fd.kind # "pipe" THEN kp
    ELSE IF fd.end = "r"
    THEN [kp EXCEPT ![fd.pipe].r = @ \ {holder}]
    ELSE [kp EXCEPT ![fd.pipe].w = @ \ {holder}]

\* holder leaves every pipe end (a process exits)
ReleaseAll(kp, holder) ==
    [k \in 1..Len(kp) |-> [kp[k] EXCEPT !.r = @ \ {holder}, !.w = @ \ {holder}]]

RECURSIVE CloseAll(_, _)
CloseAll(kp, fds) ==
    IF fds = <<>> THEN kp ELSE CloseAll(Release(kp, Head(fds), ShellPid), Tail(fds))

\* os.Create(path): fails on the empty path and on a directory
CreateFails(path) == path = <<>> \/ path \in Directories

\* os.Open(path): fails unless the file exists
OpenFails(o, path) == path \notin DOMAIN o.files

\* the program of a process: the last element of its path
Base(path) == path[Len(path)]

\* what a process does, by its program: "printf" writes its arguments and
\* exits 0, "sleep" exits 0 after a while, "false" exits 1, "tr" copies its
\* standard input to its standard output and exits 0 at end of file
WritesArgs(proc) == Base(proc.path) = "printf"
CopiesStdin(proc) == Base(proc.path) = "tr"
ExitCodeOf(proc) == IF Base(proc.path) = "false" THEN 1 ELSE 0

Killed == 0 - 1
SigPipe == 128 + 13

\* exec.Cmd.Start: a child process with the Cmd's three streams (a nil Stdin
\* is the null device); it fails when exec refuses the file
StartFails(c) == c.Path \in BadImages

Spawn(o, c) ==
    LET pid == Len(o.procs) + 1
        in0 == IF c.Stdin = NilFd THEN DevNull ELSE c.Stdin
        proc == [path |-> c.Path, args |-> c.Args, stdin |-> in0,
                 stdout |-> c.Stdout, stderr |-> c.Stderr, status |-> "running",
                 code |-> 0, wrote |-> FALSE, consumed |-> FALSE, ctx |-> c.ctx,
                 reaped |-> FALSE]
    IN [o EXCEPT !.procs = Append(o.procs, proc),
                 !.kpipes = Hold(Hold(o.kpipes, in0, pid), c.Stdout, pid)]

\* the process ends: its descriptors are closed
Terminate(o, pid, code) ==
    [o EXCEPT !.procs[pid].status = "exited", !.procs[pid].code = code,
              !.kpipes = ReleaseAll(o.kpipes, pid)]

\* process pid writes data to its standard output
WriteOut(o, pid, data) ==
    LET fd == o.procs[pid].stdout IN
    CASE fd.kind = "tty" -> PrintJob(o, "out", data, pid)
      [] fd.kind = "pipe" ->
            IF o.kpipes[fd.pipe].r = {}
            THEN Terminate(o, pid, SigPipe)
            ELSE [o EXCEPT !.kpipes[fd.pipe].buf = @ \o data]
      [] fd.kind = "file" /\ fd.path \in DOMAIN o.files ->
            [o EXCEPT !.files[fd.path] = @ \o data]
      [] OTHER -> o

\* what process pid can read from its standard input now
Available(o, pid) ==
    LET p == o.procs[pid] fd == p.stdin IN
    CASE fd.kind = "pipe" -> o.kpipes[fd.pipe].buf
      [] fd.kind = "file" /\ ~p.consumed /\ fd.path \in DOMAIN o.files -> o.files[fd.path]
      [] OTHER -> <<>>

\* process pid reads end of file on its standard input: nothing is left and,
\* for a pipe, no write end is open anywhere; at the terminal the user ends
\* the input when they choose
AtEOF(o, pid) ==
    LET p == o.procs[pid] fd == p.stdin IN
    /\ Available(o, pid) = <<>>
    /\ fd.kind = "pipe" => o.kpipes[fd.pipe].w = {}

Running(o) == {pid \in 1..Len(o.procs) : o.procs[pid].status = "running"}

----------------------------------------------------------------------------
(* package cli: the command registry; package shell: the Session           *)

\* builtinCommands: commands.go lines 55-347
BuiltinCommands ==
    {Word(n) : n \in
        {"cd", "pwd", "echo", "exit", "help", "history", "alias", "unalias", "env",
         "export", "which", "type", "ls", "mkdir", "rmdir", "rm", "cp", "mv", "touch",
         "cat", "head", "tail", "wc", "grep", "sort", "ps", "kill", "df", "du", "free",
         "uptime", "uname", "find", "locate", "chmod", "chown", "chgrp", "ping", "wget",
         "curl", "netstat", "tar", "gzip", "gunzip", "zip", "unzip"}}

IsBuiltin(name) == name \in BuiltinCommands

\* an expansion that put the alias's words after the arguments
ExpandAliasesAppending(cmd, aliases) ==
    IF cmd.Name \in DOMAIN aliases
    THEN LET parts == Fields(aliases[cmd.Name]) IN
         IF Len(parts) > 0
         THEN [cmd EXCEPT !.Name = parts[1],
                          !.Args = IF Len(parts) > 1 THEN cmd.Args \o Tail(parts) ELSE cmd.Args]
         ELSE cmd
    ELSE cmd

ExpandAliases(cmd, aliases) ==
    IF cmd.Name \in DOMAIN aliases
    THEN LET parts == Fields(aliases[cmd.Name]) IN
         IF Len(parts) > 0
         THEN [cmd EXCEPT !.Name = parts[1],
                          !.Args = IF Len(parts) > 1 THEN Tail(parts) \o cmd.Args ELSE cmd.Args]
         ELSE cmd
    ELSE cmd

DefaultHistoryLimit == 1000

\* an AddHistory that evicts the newest entries instead of the oldest
AddHistoryEvictingNewest(history, limit, line) ==
    IF line = <<>> \/ (Len(history) > 0 /\ history[Len(history)] = line)
    THEN history
    ELSE LET h == Append(history, line) IN
         IF Len(h) > limit THEN SubSeq(h, 1, limit) ELSE h

\* Session.AddHistory
AddHistory(history, limit, line) ==
    IF line = <<>> \/ (Len(history) > 0 /\ history[Len(history)] = line)
    THEN history
    ELSE LET h == Append(history, line) IN
         IF Len(h) > limit THEN SubSeq(h, Len(h) - limit + 1, Len(h)) ELSE h

----------------------------------------------------------------------------
(* package builtin: the handlers executeBuiltin dispatches to.  Each takes *)
(* the state st = [sh, os] and gives the state after it and its error.     *)

Result(st, err) == [st |-> st, err |-> err]

Say(st, data) == [st EXCEPT !.os = PrintShell(st.os, "out", data)]

\* strings.SplitN(arg, "=", 2)
RECURSIVE IndexOf(_, _, _)
IndexOf(s, ch, k) ==
    IF k > Len(s) THEN 0 ELSE IF s[k] = ch THEN k ELSE IndexOf(s, ch, k + 1)

KeyOf(arg) == SubSeq(arg, 1, IndexOf(arg, "=", 1) - 1)
ValueOf(arg) == SubSeq(arg, IndexOf(arg, "=", 1) + 1, Len(arg))

\* strconv.Atoi on the arguments the model uses
Atoi(arg) == IF arg = Word("1") THEN 1 ELSE IF arg = Word("2") THEN 2 ELSE 0

FilepathJoin(dir, name) ==
    IF dir = <<"/">> THEN <<"/">> \o name ELSE dir \o <<"/">> \o name

Echo(st, args) == Result(Say(st, Join(args) \o <<"\n">>), NilError)

\* Exit: os.Exit(code) ends the process for a nonzero code, else the "exit" error
Exit(st, args) ==
    LET code == IF Len(args) > 0 THEN Atoi(args[1]) ELSE 0 IN
    IF code # 0
    THEN Result([st EXCEPT !.sh.mainpc = "exited"], NilError)
    ELSE Result(st, Word("exit"))

Pwd(st, args) == Result(Say(st, st.os.cwd \o <<"\n">>), NilError)

\* a Cd that leaves the previous directory as it was
CdForgettingPreviousDir(st, args) ==
    LET home == Getenv(st.os, Word("HOME"))
        t0 == IF Len(args) = 0 THEN home ELSE args[1]
        dash == t0 = Word("-")
        t1 == IF dash THEN st.sh.previousDir ELSE t0
        st1 == IF dash /\ t1 # <<>> THEN Say(st, t1 \o <<"\n">>) ELSE st
        tilde == Len(t1) >= 2 /\ t1[1] = "~" /\ t1[2] = "/"
        t2 == IF tilde THEN home \o Tail(t1) ELSE t1
        dir == IF t2 # <<>> /\ t2[1] = "/" THEN t2 ELSE FilepathJoin(st.os.cwd, t2)
    IN IF Len(args) = 0 /\ home = <<>>
       THEN Result(st, Word("HOME environment variable not set"))
       ELSE IF dash /\ t1 = <<>>
       THEN Result(st, Word("no previous directory"))
       ELSE IF tilde /\ home = <<>>
       THEN Result(st1, Word("HOME environment variable not set"))
       ELSE IF t2 = <<>> \/ dir \notin Directories
       THEN Result(st1, Word("chdir: no such file or directory"))
       ELSE Result([st1 EXCEPT !.os.cwd = dir, !.sh.workingDir = dir], NilError)

Cd(st, args) ==
    LET home == Getenv(st.os, Word("HOME"))
        t0 == IF Len(args) = 0 THEN home ELSE args[1]
        dash == t0 = Word("-")
        t1 == IF dash THEN st.sh.previousDir ELSE t0
        st1 == IF dash /\ t1 # <<>> THEN Say(st, t1 \o <<"\n">>) ELSE st
        tilde == Len(t1) >= 2 /\ t1[1] = "~" /\ t1[2] = "/"
        t2 == IF tilde THEN home \o Tail(t1) ELSE t1
        dir == IF t2 # <<>> /\ t2[1] = "/" THEN t2 ELSE FilepathJoin(st.os.cwd, t2)
    IN IF Len(args) = 0 /\ home = <<>>
       THEN Result(st, Word("HOME environment variable not set"))
       ELSE IF dash /\ t1 = <<>>
       THEN Result(st, Word("no previous directory"))
       ELSE IF tilde /\ home = <<>>
       THEN Result(st1, Word("HOME environment variable not set"))
       ELSE IF t2 = <<>> \/ dir \notin Directories
       THEN Result(st1, Word("chdir: no such file or directory"))
       ELSE Result([st1 EXCEPT !.os.cwd = dir, !.sh.workingDir = dir,
                               !.sh.previousDir = st.sh.workingDir], NilError)

StripQuotes(v) ==
    IF Len(v) >= 2 /\ ((v[1] = DQ /\ v[Len(v)] = DQ) \/ (v[1] = SQ /\ v[Len(v)] = SQ))
    THEN SubSeq(v, 2, Len(v) - 1)
    ELSE v

RECURSIVE AliasArgs(_, _)
AliasArgs(st, args) ==
    IF args = <<>> THEN st
    ELSE LET arg == Head(args) IN
         IF "=" \in Range(arg)
         THEN AliasArgs([st EXCEPT !.sh.aliases = MapSet(@, KeyOf(arg), StripQuotes(ValueOf(arg)))],
                        Tail(args))
         ELSE AliasArgs(Say(st, <<"alias: ">> \o arg), Tail(args))

Alias(st, args) ==
    IF Len(args) = 0
    THEN Result(Say(st, Word("aliases")), NilError)
    ELSE Result(AliasArgs(st, args), NilError)

RECURSIVE RemoveAliases(_, _)
RemoveAliases(aliases, names) ==
    IF names = <<>> THEN aliases
    ELSE RemoveAliases(MapRemove(aliases, Head(names)), Tail(names))

Unalias(st, args) ==
    IF Len(args) = 0
    THEN Result(st, Word("unalias: usage: unalias name [name ...]"))
    ELSE Result([st EXCEPT !.sh.aliases = RemoveAliases(@, args)], NilError)

RECURSIVE EnvArgs(_, _, _)
EnvArgs(st, args, show) ==
    IF args = <<>> THEN st
    ELSE LET arg == Head(args) IN
         IF "=" \in Range(arg)
         THEN EnvArgs([st EXCEPT !.os.env = MapSet(@, KeyOf(arg), ValueOf(arg))], Tail(args), show)
         ELSE IF show /\ Getenv(st.os, arg) # <<>>
         THEN EnvArgs(Say(st, arg \o <<"=">> \o Getenv(st.os, arg)), Tail(args), show)
         ELSE EnvArgs(st, Tail(args), show)

Env(st, args) ==
    IF Len(args) = 0
    THEN Result(Say(st, Word("environment")), NilError)
    ELSE Result(EnvArgs(st, args, TRUE), NilError)

Export(st, args) ==
    IF Len(args) = 0 THEN Env(st, args) ELSE Result(EnvArgs(st, args, FALSE), NilError)

\* Help, History: they print and return nil
Help(st, args) == Result(Say(st, Word("help")), NilError)
History(st, args) == Result(Say(st, Word("history")), NilError)

\* Which, Type: a usage error without arguments, else they print and return nil
Which(st, args) ==
    IF Len(args) = 0
    THEN Result(st, Word("which: usage: which command [command ...]"))
    ELSE Result(Say(st, Word("which")), NilError)

Type(st, args) ==
    IF Len(args) = 0
    THEN Result(st, Word("type: usage: type command [command ...]"))
    ELSE Result(Say(st, Word("type")), NilError)

----------------------------------------------------------------------------
(* package executor.  sh.pc is the place the Executor is at; commands,     *)
(* pipes, readers, cmds, i and wg are the locals of executePipeline,       *)
(* execCmd and child the exec.Cmd of executeExternal and its process.      *)

NilCmd == [Path |-> <<>>, Args |-> <<>>, Stdin |-> NilFd, Stdout |-> NilFd,
           Stderr |-> NilFd, ctx |-> "none"]

InitialShell ==
    [mainpc |-> "read", eof |-> FALSE, input |-> <<>>, nlines |-> 0, err |-> NilError,
     pc |-> "idle", cmd |-> NilCommand, commands |-> <<>>, pipes |-> <<>>,
     readers |-> <<>>, cmds |-> <<>>, i |-> 0, wg |-> 0, execCmd |-> NilCmd,
     child |-> 0, waiters |-> {},
     aliases |-> EmptyMap, history |-> <<>>, historyLimit |-> DefaultHistoryLimit,
     workingDir |-> <<"/", "home">>, previousDir |-> <<>>]

\* a main loop that any error of Execute ended
ReturnToMainStoppingOnError(st, err) ==
    LET sh1 == [st.sh EXCEPT !.pc = "idle", !.err = err, !.commands = <<>>,
                             !.pipes = <<>>, !.readers = <<>>, !.cmds = <<>>, !.i = 0,
                             !.wg = 0, !.execCmd = NilCmd, !.child = 0]
    IN IF st.sh.mainpc = "exited"
       THEN [st EXCEPT !.sh = sh1]
       ELSE IF err = NilError
       THEN [st EXCEPT !.sh = [sh1 EXCEPT !.mainpc = "read"]]
       ELSE [st EXCEPT !.sh = [sh1 EXCEPT !.mainpc = "stopped"]]

\* Execute returns err to main, whose loop goes on, or ends on the "exit"
\* error: main.go lines 72-77.  The locals of the call are gone.
ReturnToMain(st, err) ==
    LET sh1 == [st.sh EXCEPT !.pc = "idle", !.err = err, !.commands = <<>>,
                             !.pipes = <<>>, !.readers = <<>>, !.cmds = <<>>, !.i = 0,
                             !.wg = 0, !.execCmd = NilCmd, !.child = 0]
    IN IF st.sh.mainpc = "exited"
       THEN [st EXCEPT !.sh = sh1]
       ELSE IF err = NilError
       THEN [st EXCEPT !.sh = [sh1 EXCEPT !.mainpc = "read"]]
       ELSE IF err = Word("exit")
       THEN [st EXCEPT !.sh = [sh1 EXCEPT !.mainpc = "stopped"]]
       ELSE [st EXCEPT !.sh = [sh1 EXCEPT !.mainpc = "read"],
                       !.os = PrintShell(st.os, "error", err)]

\* isExecutable without the test of the mode bits
isExecutableAnyMode(path) == path \in RegularFiles

\* isExecutable: a regular file with an execute bit
isExecutable(path) == path \in RegularFiles /\ path \in ExecutableFiles

RECURSIVE SearchPath(_, _)
SearchPath(dirs, name) ==
    IF dirs = <<>> THEN <<>>
    ELSE IF Head(dirs) = <<>> THEN SearchPath(Tail(dirs), name)
    ELSE IF isExecutable(FilepathJoin(Head(dirs), name))
    THEN FilepathJoin(Head(dirs), name)
    ELSE SearchPath(Tail(dirs), name)

DefaultPath == <<"/", "usr", "/", "local", "/", "bin", ":", "/", "usr", "/", "bin", ":", "/", "bin">>

\* findExecutable: the path found, or <<>> for the error "not found"
findExecutable(st, name) ==
    IF "/" \in Range(name)
    THEN IF name[1] = "/"
         THEN IF isExecutable(name) THEN name ELSE <<>>
         ELSE IF isExecutable(FilepathJoin(st.sh.workingDir, name))
              THEN FilepathJoin(st.sh.workingDir, name)
              ELSE <<>>
    ELSE LET env == Getenv(st.os, Word("PATH"))
             path == IF env = <<>> THEN DefaultPath ELSE env
         IN SearchPath(Split(path, ":"), name)

\* setupRedirections: the Cmd with the redirected stream, the files after the
\* open, and the error of the open
setupRedirections(o, c, redirect) ==
    LET t == redirect.Target
        created == [o EXCEPT !.files = MapSet(o.files, t, <<>>)]
        appended == IF t \in DOMAIN o.files THEN o ELSE created
        failed == [os |-> o, cmd |-> c, err |-> <<"open ">> \o t]
    IN CASE redirect = NilRedirect -> [os |-> o, cmd |-> c, err |-> NilError]
         [] redirect.Type = "RedirectOut" ->
               IF CreateFails(t) THEN failed
               ELSE [os |-> created, cmd |-> [c EXCEPT !.Stdout = FileFd(t, "w")], err |-> NilError]
         [] redirect.Type = "RedirectAppend" ->
               IF CreateFails(t) THEN failed
               ELSE [os |-> appended, cmd |-> [c EXCEPT !.Stdout = FileFd(t, "w")], err |-> NilError]
         [] redirect.Type = "RedirectIn" ->
               IF OpenFails(o, t) THEN failed
               ELSE [os |-> o, cmd |-> [c EXCEPT !.Stdin = FileFd(t, "r")], err |-> NilError]
         [] redirect.Type = "RedirectErr" ->
               IF CreateFails(t) THEN failed
               ELSE [os |-> created, cmd |-> [c EXCEPT !.Stderr = FileFd(t, "w")], err |-> NilError]
         [] redirect.Type = "RedirectBoth" ->
               IF CreateFails(t) THEN failed
               ELSE [os |-> created,
                     cmd |-> [c EXCEPT !.Stdout = FileFd(t, "w"), !.Stderr = FileFd(t, "w")],
                     err |-> NilError]
         [] OTHER -> [os |-> o, cmd |-> c, err |-> NilError]

\* the names executeBuiltin's switch has a case for
HandlerNames ==
    {Word(n) : n \in {"cd", "pwd", "echo", "exit", "help", "history", "alias",
                      "unalias", "env", "export", "which", "type"}}

\* executeBuiltin: the handler's arguments are cmd.Args and the Session;
\* cmd.Redirect and cmd.Background are not looked at
executeBuiltin(st, cmd) ==
    LET n == cmd.Name a == cmd.Args IN
    CASE n = Word("cd") -> Cd(st, a)
      [] n = Word("pwd") -> Pwd(st, a)
      [] n = Word("echo") -> Echo(st, a)
      [] n = Word("exit") -> Exit(st, a)
      [] n = Word("help") -> Help(st, a)
      [] n = Word("history") -> History(st, a)
      [] n = Word("alias") -> Alias(st, a)
      [] n = Word("unalias") -> Unalias(st, a)
      [] n = Word("env") -> Env(st, a)
      [] n = Word("export") -> Export(st, a)
      [] n = Word("which") -> Which(st, a)
      [] n = Word("type") -> Type(st, a)
      [] OTHER -> Result(st, <<"unknown built-in command: ">> \o n)

\* executeExternal up to its call of executeBackground or executeForeground
executeExternal(st, cmd) ==
    LET execPath == findExecutable(st, cmd.Name) IN
    IF execPath = <<>>
    THEN ReturnToMain(st, <<"command not found: ">> \o cmd.Name)
    ELSE LET c == [NilCmd EXCEPT !.Path = execPath, !.Args = cmd.Args, !.ctx = "live"]
             r == setupRedirections(st.os, c, cmd.Redirect)
         IN IF r.err # NilError
            THEN ReturnToMain([st EXCEPT !.os = r.os], r.err)
            ELSE [st EXCEPT !.os = r.os, !.sh.execCmd = r.cmd,
                            !.sh.pc = IF cmd.Background THEN "executeBackground"
                                      ELSE "executeForeground"]

\* executeSingle
executeSingle(st) ==
    LET cmd == ExpandAliases(st.sh.cmd, st.sh.aliases)
        st1 == [st EXCEPT !.sh.cmd = cmd]
    IN IF IsBuiltin(cmd.Name)
       THEN LET r == executeBuiltin(st1, cmd) IN ReturnToMain(r.st, r.err)
       ELSE executeExternal(st1, cmd)

\* Execute
Execute(st) ==
    IF Len(st.sh.cmd.Pipes) > 0
    THEN [st EXCEPT !.sh.pc = "createPipes", !.sh.commands = <<st.sh.cmd>> \o st.sh.cmd.Pipes,
                    !.sh.pipes = <<>>, !.sh.readers = <<>>, !.sh.cmds = <<>>,
                    !.sh.i = 0, !.sh.wg = 0]
    ELSE executeSingle(st)

\* the deferred cancel() of executeExternal: the context of its child is done
Cancel(st) ==
    IF st.sh.child = 0 THEN st ELSE [st EXCEPT !.os.procs[st.sh.child].ctx = "cancelled"]

Defaulted(fd, dflt) == IF fd = NilFd THEN dflt ELSE fd

\* executeForeground up to cmd.Wait(): lines 127-142
executeForeground(st) ==
    LET c == [st.sh.execCmd EXCEPT !.Stdin = Defaulted(@, Stdin),
                                   !.Stdout = Defaulted(@, Stdout),
                                   !.Stderr = Defaulted(@, Stderr)]
    IN IF StartFails(c)
       THEN ReturnToMain(st, <<"exec ">> \o c.Path)
       ELSE [st EXCEPT !.os = Spawn(st.os, c), !.sh.execCmd = c,
                       !.sh.child = Len(st.os.procs) + 1, !.sh.pc = "foregroundWait"]

\* the error of exec.Cmd.Wait for an exited process
WaitError(proc) ==
    IF proc.code = 0 THEN NilError
    ELSE IF proc.code = Killed THEN Word("signal: killed")
    ELSE Word("exit status")

\* cmd.Wait() of executeForeground returns (the child has exited): line 145
ForegroundWait(st) ==
    LET pid == st.sh.child
        st1 == Cancel([st EXCEPT !.os.procs[pid].reaped = TRUE])
    IN ReturnToMain(st1, WaitError(st.os.procs[pid]))

\* executeBackground up to the job announcement: lines 149-164
executeBackground(st) ==
    LET c == [st.sh.execCmd EXCEPT !.Stdout = Defaulted(@, Stdout),
                                   !.Stderr = Defaulted(@, Stderr)]
    IN IF StartFails(c)
       THEN ReturnToMain(st, <<"exec ">> \o c.Path)
       ELSE [st EXCEPT !.os = Spawn(st.os, c), !.sh.execCmd = c,
                       !.sh.child = Len(st.os.procs) + 1, !.sh.pc = "backgroundStarted"]

\* an executeBackground that waited for its child before it returned
BackgroundWaitsForChild(st) == st.os.procs[st.sh.child].status = "exited"

\* what executeBackground waits for between Start and its return: nothing
BackgroundMayReturn(st) == TRUE

\* executeBackground from the job announcement to its return: lines 166-174
BackgroundReturn(st) ==
    LET pid == st.sh.child
        st1 == [st EXCEPT !.os = PrintJob(st.os, "job", Word("[1]"), pid),
                          !.sh.waiters = @ \cup {[pid |-> pid, kind |-> "background", frame |-> 0]}]
    IN ReturnToMain(Cancel(st1), NilError)

\* executePipeline's deferred function: the shell closes every pipe end it
\* created, then the error goes to main: lines 196-203
ReturnDeferred(st, err) ==
    ReturnToMain([st EXCEPT !.os.kpipes = CloseAll(CloseAll(@, st.sh.pipes), st.sh.readers)],
                 err)

\* one iteration of the loop that creates the pipes (os.Pipe succeeds or not),
\* and after the loop the defer: lines 186-203
CreatePipe(st, ok) ==
    IF st.sh.i < Len(st.sh.commands) - 1
    THEN IF ok
         THEN LET id == Len(st.os.kpipes) + 1 IN
              [st EXCEPT !.os = OsPipe(st.os),
                         !.sh.pipes = Append(@, PipeFd(id, "w")),
                         !.sh.readers = Append(@, PipeFd(id, "r")),
                         !.sh.i = @ + 1]
         ELSE ReturnToMain(st, Word("pipe: too many open files"))
    ELSE [st EXCEPT !.sh.pc = "buildCommands", !.sh.i = 0]

\* the streams of stage i (zero-based) of n: lines 224-242
\* a wiring that read every later stage from the first pipe
StageStdinFirstReader(i, n, readers) == IF i = 0 THEN Stdin ELSE readers[1]

StageStdin(i, n, readers) == IF i = 0 THEN Stdin ELSE readers[(i - 1) + 1]

StageStdout(i, n, pipes) == IF i = n - 1 THEN Stdout ELSE pipes[i + 1]

StageStderr(i, n) == Stderr

\* a loop that applied each stage's redirect to its Cmd
BuildCommandRedirecting(st) ==
    LET i == st.sh.i n == Len(st.sh.commands) IN
    IF i < n
    THEN LET command == st.sh.commands[i + 1]
             execPath == findExecutable(st, command.Name)
             c == [Path |-> execPath, Args |-> command.Args,
                   Stdin |-> StageStdin(i, n, st.sh.readers),
                   Stdout |-> StageStdout(i, n, st.sh.pipes),
                   Stderr |-> StageStderr(i, n), ctx |-> "none"]
             r == setupRedirections(st.os, c, command.Redirect)
         IN IF IsBuiltin(command.Name)
            THEN ReturnDeferred(st, Word("built-in commands in pipelines not yet supported"))
            ELSE IF execPath = <<>>
            THEN ReturnDeferred(st, <<"command not found: ">> \o command.Name)
            ELSE IF r.err # NilError
            THEN ReturnDeferred([st EXCEPT !.os = r.os], r.err)
            ELSE [st EXCEPT !.os = r.os, !.sh.cmds = Append(@, r.cmd), !.sh.i = i + 1]
    ELSE [st EXCEPT !.sh.pc = "startCommands", !.sh.i = 0]

\* one iteration of the loop that builds the exec.Cmds: lines 209-244
BuildCommand(st) ==
    LET i == st.sh.i n == Len(st.sh.commands) IN
    IF i < n
    THEN LET command == st.sh.commands[i + 1]
             execPath == findExecutable(st, command.Name)
         IN IF IsBuiltin(command.Name)
            THEN ReturnDeferred(st, Word("built-in commands in pipelines not yet supported"))
            ELSE IF execPath = <<>>
            THEN ReturnDeferred(st, <<"command not found: ">> \o command.Name)
            ELSE [st EXCEPT !.sh.cmds =
                                Append(@, [Path |-> execPath, Args |-> command.Args,
                                           Stdin |-> StageStdin(i, n, st.sh.readers),
                                           Stdout |-> StageStdout(i, n, st.sh.pipes),
                                           Stderr |-> StageStderr(i, n), ctx |-> "none"]),
                            !.sh.i = i + 1]
    ELSE [st EXCEPT !.sh.pc = "startCommands", !.sh.i = 0]

\* one iteration of the loop that starts the commands: lines 247-256
StartCommand(st) ==
    LET i == st.sh.i IN
    IF i < Len(st.sh.cmds)
    THEN LET c == st.sh.cmds[i + 1] pid == Len(st.os.procs) + 1 IN
         IF StartFails(c)
         THEN ReturnDeferred(st, <<"exec ">> \o c.Path)
         ELSE [st EXCEPT !.os = Spawn(st.os, c),
                         !.sh.wg = @ + 1,
                         !.sh.waiters = @ \cup {[pid |-> pid, kind |-> "pipeline",
                                                 frame |-> st.sh.nlines]},
                         !.sh.i = i + 1]
    ELSE [st EXCEPT !.sh.pc = "waitGroup"]

\* a join that let the caller go on at once
WaitGroupNeverWaits(st) == TRUE

\* whether executePipeline's caller thread may go on past wg.Wait(): line 259
WaitGroupDone(st) == st.sh.wg = 0

\* wg.Wait() returns and executePipeline with it: lines 259-261
WaitGroup(st) == ReturnDeferred(st, NilError)

\* a goroutine that waits for a child: c.Wait() returns once the child has
\* exited; then wg.Done() (lines 252-255) or the completion notice (169-172)
\* a waiter of a background command that prints no completion notice
WaiterWithoutNotice(st, w) ==
    LET st1 == [st EXCEPT !.os.procs[w.pid].reaped = TRUE, !.sh.waiters = @ \ {w}] IN
    IF w.kind = "pipeline"
    THEN IF w.frame = st.sh.nlines /\ st.sh.pc \in {"startCommands", "waitGroup"}
         THEN [st1 EXCEPT !.sh.wg = @ - 1]
         ELSE st1
    ELSE st1

Waiter(st, w) ==
    LET st1 == [st EXCEPT !.os.procs[w.pid].reaped = TRUE, !.sh.waiters = @ \ {w}] IN
    IF w.kind = "pipeline"
    THEN IF w.frame = st.sh.nlines /\ st.sh.pc \in {"startCommands", "waitGroup"}
         THEN [st1 EXCEPT !.sh.wg = @ - 1]
         ELSE st1
    ELSE [st1 EXCEPT !.os = PrintJob(st1.os, "done", Word("[1] Done"), w.pid)]

\* a main loop whose parse knew the session's aliases
ReadLineExpanding(st, line) ==
    LET input == TrimSpace(line)
        sh1 == [st.sh EXCEPT !.nlines = @ + 1, !.input = input]
        sh2 == [sh1 EXCEPT !.history = AddHistory(@, sh1.historyLimit, input)]
        r == ParseLine(input)
    IN IF input = <<>>
       THEN [st EXCEPT !.sh = sh1]
       ELSE IF r.err # NoError
       THEN [st EXCEPT !.sh = sh2, !.os = PrintShell(st.os, "parse error", Word(r.err))]
       ELSE [st EXCEPT !.sh = [sh2 EXCEPT !.cmd = ExpandAliases(r.cmd, st.sh.aliases),
                                          !.mainpc = "execute", !.pc = "Execute"]]

\* main's loop from reader.ReadLine() to the call of Execute: main.go lines 44-72
ReadLine(st, line) ==
    LET input == TrimSpace(line)
        sh1 == [st.sh EXCEPT !.nlines = @ + 1, !.input = input]
        sh2 == [sh1 EXCEPT !.history = AddHistory(@, sh1.historyLimit, input)]
        r == ParseLine(input)
    IN IF input = <<>>
       THEN [st EXCEPT !.sh = sh1]
       ELSE IF r.err # NoError
       THEN [st EXCEPT !.sh = sh2, !.os = PrintShell(st.os, "parse error", Word(r.err))]
       ELSE [st EXCEPT !.sh = [sh2 EXCEPT !.cmd = r.cmd, !.mainpc = "execute",
                                          !.pc = "Execute"]]

\* reader.ReadLine() reports EOF: main says so and leaves its loop:
\* main.go lines 46-51
ReadEOF(st) ==
    [st EXCEPT !.sh.eof = TRUE, !.sh.mainpc = "stopped",
               !.os = PrintShell(st.os, "out", <<"\n", "Exiting...", "\n">>)]

----------------------------------------------------------------------------
(* Shell runs: main reads up to MaxLines lines, each parsed and executed,  *)
(* while the children and the waiting goroutines run on their own.         *)

MaxLines == 2

ExecLines ==
    { <<"echo", " ", "hi", " ", ">", " ", "out.txt">>,
      <<"cat", " ", "<", " ", "out.txt">>,
      <<"printf", " ", "hi", " ", ">", " ", "out.txt">>,
      <<"tr", " ", "<", " ", "out.txt">>,
      <<"printf", " ", "a", " ", "|", " ", "tr">>,
      <<"printf", " ", "a", " ", "|", " ", "tr", " ", "|", " ", "tr">>,
      <<"sleep", " ", "|", " ", "tr", " ", "&">>,
      <<"printf", " ", "a", " ", "|", " ", "sleep">>,
      <<"printf", " ", "a", " ", ">", " ", "out.txt", " ", "|", " ", "sleep">>,
      <<"printf", " ", "a", " ", "|", " ", "sleep", " ", "<", " ", "out.txt", " ", "|", " ",
        "sleep", " ", ">", " ", "out.txt">>,
      <<"printf", " ", "a", " ", "|", " ", "echo">>,
      <<"nosuch", " ", "|", " ", "echo">>,
      <<"printf", " ", "a", " ", "|", " ", "broken">>,
      <<"sleep", " ", "&">>,
      <<"sleep">>,
      <<"false">>,
      <<"tr">>,
      <<"nosuch">>,
      <<"notes", " ", ">", " ", "out.txt">>,
      <<"/", "bin", "/", "zz">>,
      <<"alias", " ", "p", "=", "printf">>,
      <<"alias", " ", "printf", "=", DQ, "printf", " ", "b", DQ>>,
      <<"p", " ", "a">>,
      <<"echo", " ", DQ, "a">>,
      <<"exit">>,
      <<"exit", " ", "1">> }

Cur == [sh |-> sh, os |-> os]

Becomes(st) == sh' = st.sh /\ os' = st.os /\ UNCHANGED parser

ShellInit ==
    /\ parser = NewParser(<<>>)
    /\ sh = InitialShell
    /\ os = InitialOS

DoReadLine ==
    /\ sh.mainpc = "read"
    /\ sh.nlines < MaxLines
    /\ \E line \in ExecLines : Becomes(ReadLine(Cur, line))

DoReadEOF ==
    /\ sh.mainpc = "read"
    /\ Becomes(ReadEOF(Cur))

DoExecute ==
    /\ sh.mainpc = "execute" /\ sh.pc = "Execute"
    /\ Becomes(Execute(Cur))

DoExecuteForeground ==
    /\ sh.mainpc = "execute" /\ sh.pc = "executeForeground"
    /\ Becomes(executeForeground(Cur))

DoForegroundWait ==
    /\ sh.mainpc = "execute" /\ sh.pc = "foregroundWait"
    /\ os.procs[sh.child].status = "exited"
    /\ Becomes(ForegroundWait(Cur))

DoExecuteBackground ==
    /\ sh.mainpc = "execute" /\ sh.pc = "executeBackground"
    /\ Becomes(executeBackground(Cur))

DoBackgroundReturn ==
    /\ sh.mainpc = "execute" /\ sh.pc = "backgroundStarted"
    /\ BackgroundMayReturn(Cur)
    /\ Becomes(BackgroundReturn(Cur))

DoCreatePipe ==
    /\ sh.mainpc = "execute" /\ sh.pc = "createPipes"
    /\ \E ok \in BOOLEAN : Becomes(CreatePipe(Cur, ok))

DoBuildCommand ==
    /\ sh.mainpc = "execute" /\ sh.pc = "buildCommands"
    /\ Becomes(BuildCommand(Cur))

DoStartCommand ==
    /\ sh.mainpc = "execute" /\ sh.pc = "startCommands"
    /\ Becomes(StartCommand(Cur))

DoWaitGroup ==
    /\ sh.mainpc = "execute" /\ sh.pc = "waitGroup"
    /\ WaitGroupDone(Cur)
    /\ Becomes(WaitGroup(Cur))

\* the steps of the thread that called Execute
ExecutorStep ==
    \/ DoExecute
    \/ DoExecuteForeground
    \/ DoForegroundWait
    \/ DoExecuteBackground
    \/ DoBackgroundReturn
    \/ DoCreatePipe
    \/ DoBuildCommand
    \/ DoStartCommand
    \/ DoWaitGroup

ShellAlive == sh.mainpc \in {"read", "execute"}

DoWaiter ==
    /\ ShellAlive
    /\ \E w \in sh.waiters :
          /\ os.procs[w.pid].status = "exited"
          /\ Becomes(Waiter(Cur, w))

\* exec's watcher of a CommandContext child: the context is done while the
\* child runs, and the child is killed
ContextKill ==
    /\ ShellAlive
    /\ \E pid \in Running(os) :
          /\ os.procs[pid].ctx = "cancelled"
          /\ Becomes([Cur EXCEPT !.os = Terminate(os, pid, Killed)])

ChildWrite ==
    \E pid \in Running(os) :
        /\ WritesArgs(os.procs[pid])
        /\ ~os.procs[pid].wrote
        /\ Becomes([Cur EXCEPT !.os =
                [WriteOut(os, pid, Join(os.procs[pid].args)) EXCEPT !.procs[pid].wrote = TRUE]])

ChildCopy ==
    \E pid \in Running(os) :
        /\ CopiesStdin(os.procs[pid])
        /\ Available(os, pid) # <<>>
        /\ LET fd == os.procs[pid].stdin
               taken == IF fd.kind = "pipe"
                        THEN [os EXCEPT !.kpipes[fd.pipe].buf = <<>>]
                        ELSE [os EXCEPT !.procs[pid].consumed = TRUE]
           IN Becomes([Cur EXCEPT !.os = WriteOut(taken, pid, Available(os, pid))])

ChildExit ==
    \E pid \in Running(os) :
        /\ WritesArgs(os.procs[pid]) => os.procs[pid].wrote
        /\ CopiesStdin(os.procs[pid]) => AtEOF(os, pid)
        /\ Becomes([Cur EXCEPT !.os = Terminate(os, pid, ExitCodeOf(os.procs[pid]))])

ChildStep == ChildWrite \/ ChildCopy \/ ChildExit

ShellNext ==
    \/ DoReadLine
    \/ DoReadEOF
    \/ ExecutorStep
    \/ DoWaiter
    \/ ContextKill
    \/ ChildStep

ShellSpec == ShellInit /\ [][ShellNext]_vars

\* the scheduler runs every thread and process that can take a step; the
\* user need not enter another line
ShellFairSpec ==
    ShellSpec /\ WF_vars(ExecutorStep) /\ WF_vars(DoWaiter) /\ WF_vars(ContextKill)
        /\ WF_vars(ChildStep)

----------------------------------------------------------------------------
(* The session under its own calls: Cd, AddHistory and SetHistoryLimit     *)
(* applied in any order to the session main creates, with HOME set or not. *)
(* sh.pc names the call made last and sh.nlines counts the calls.          *)

\* Session.SetHistoryLimit
SetHistoryLimit(s, limit) ==
    IF limit > 0
    THEN [s EXCEPT !.historyLimit = limit,
                   !.history = IF Len(@) > limit
                               THEN SubSeq(@, Len(@) - limit + 1, Len(@))
                               ELSE @]
    ELSE s

MaxCalls == 4

NoDir == <<"/", "nodir">>
CdArguments == {<<>>, <<Word("-")>>, <<(<<"/", "bin">>)>>, <<(<<"/">>)>>, <<NoDir>>}
HistoryLines == {<<>>, Word("pwd"), Word("help")}
HistoryLimits == {-1, 0, 1, 2}

CdCommand(args) == [NilCommand EXCEPT !.Name = Word("cd"), !.Args = args, !.nil = FALSE]

SessionInit ==
    /\ parser = NewParser(<<>>)
    /\ sh = InitialShell
    /\ os \in {InitialOS, [InitialOS EXCEPT !.env = MapRemove(@, Word("HOME"))]}

DoCd ==
    /\ sh.nlines < MaxCalls
    /\ \E args \in CdArguments :
           LET r == Cd(Cur, args) IN
           Becomes([r.st EXCEPT !.sh.pc = "Cd", !.sh.cmd = CdCommand(args),
                                !.sh.err = r.err, !.sh.nlines = @ + 1])

DoAddHistory ==
    /\ sh.nlines < MaxCalls
    /\ \E line \in HistoryLines :
           Becomes([Cur EXCEPT !.sh.history = AddHistory(@, sh.historyLimit, line),
                               !.sh.pc = "AddHistory", !.sh.input = line,
                               !.sh.cmd = NilCommand, !.sh.err = NilError,
                               !.sh.nlines = @ + 1])

DoSetHistoryLimit ==
    /\ sh.nlines < MaxCalls
    /\ \E limit \in HistoryLimits :
           Becomes([Cur EXCEPT !.sh = [SetHistoryLimit(sh, limit) EXCEPT
                                          !.pc = "SetHistoryLimit", !.i = limit,
                                          !.cmd = NilCommand, !.err = NilError,
                                          !.nlines = @ + 1]])

SessionNext == DoCd \/ DoAddHistory \/ DoSetHistoryLimit

SessionSpec == SessionInit /\ [][SessionNext]_vars

----------------------------------------------------------------------------
(* The vocabulary of the parser's claims: which characters of an input are *)
(* quoted or escaped, by the token rule alone (a quote opens a run that    *)
(* ends at the next same quote, a backslash outside a run escapes the next *)
(* character).                                                             *)

RECURSIVE LexFrom(_, _, _)
LexFrom(input, i, mode) ==
    IF i > Len(input) THEN <<>>
    ELSE LET ch == input[i] IN
         IF mode = "plain"
         THEN IF ch = BS /\ i < Len(input)
              THEN <<"esc", "esc">> \o LexFrom(input, i + 2, "plain")
              ELSE IF ch \in {DQ, SQ}
              THEN <<"open">> \o LexFrom(input, i + 1, ch)
              ELSE <<"plain">> \o LexFrom(input, i + 1, "plain")
         ELSE IF ch = mode
              THEN <<"close">> \o LexFrom(input, i + 1, "plain")
              ELSE <<"inq">> \o LexFrom(input, i + 1, mode)

Lex(input) == LexFrom(input, 1, "plain")

\* the input ends inside a quoted run: some quote is opened and never closed
EndsInQuote(input) ==
    LET lx == Lex(input) IN
    \E i \in 1..Len(input) :
        lx[i] = "open" /\ \A j \in (i + 1)..Len(input) : lx[j] = "inq"

\* position i (1-based) lies inside a quoted run that is closed later on
InClosedRun(input, i) ==
    LET lx == Lex(input) IN
    /\ lx[i] = "inq"
    /\ \E j \in (i + 1)..Len(input) :
           lx[j] = "close" /\ \A k \in i..(j - 1) : lx[k] = "inq"

Specials == {"|", ">", "<", "&", " ", "\t"}

Stages(cmd) == <<cmd>> \o cmd.Pipes

RECURSIVE CountIn(_, _)
CountIn(seq, ch) ==
    IF seq = <<>> THEN 0
    ELSE (IF Head(seq) = ch THEN 1 ELSE 0) + CountIn(Tail(seq), ch)

RECURSIVE Flatten(_)
Flatten(seqs) == IF seqs = <<>> THEN <<>> ELSE Head(seqs) \o Flatten(Tail(seqs))

\* the number of ch characters in the arguments of all stages of cmd
CountInArgs(cmd, ch) ==
    CountIn(Flatten([k \in 1..Len(Stages(cmd)) |-> Flatten(Stages(cmd)[k].Args)]), ch)

\* the number of quoted or escaped ch characters of the input
CountProtected(input, ch) ==
    Cardinality({i \in 1..Len(input) : input[i] = ch /\ Lex(input)[i] \in {"esc", "inq"}})

----------------------------------------------------------------------------
(* Claims about the parser                                                 *)

\* C6: for every input that parses successfully and whose last character is
\* an unescaped, unquoted '&', the Command returned by parse (the head, for a
\* pipeline) has Background = TRUE, and that '&' is in no stage's arguments
\* (the arguments hold no more '&' than the input has quoted or escaped).
C6_TrailingAmpSetsBackground ==
    (/\ parser.pc = "done"
     /\ parser.length > 0
     /\ parser.input[parser.length] = "&"
     /\ Lex(parser.input)[parser.length] = "plain")
    => /\ parser.cmd.Background
       /\ CountInArgs(parser.cmd, "&") <= CountProtected(parser.input, "&")

\* C8: whenever the scan stands at a '|', '>', '<', '&' or whitespace that
\* lies inside a well-formed quoted run, the parser is reading a token in
\* quoted mode, where the character is literal content: it is not looked at
\* as a pipe, a redirect, a background mark or the end of an argument.
C8_QuotedSpecialsAreLiteral ==
    (/\ parser.pc \notin {"done", "error"}
     /\ parser.pos < parser.length
     /\ parser.input[parser.pos + 1] \in Specials
     /\ InClosedRun(parser.input, parser.pos + 1))
    => (parser.pc = "tokenLoop" /\ parser.quoted)

\* the pieces of input between the positions of cuts (a set of positions, each
\* holding a '|'), in input order
RECURSIVE SplitAt(_, _, _)
SplitAt(input, cuts, from) ==
    IF cuts = {}
    THEN <<SubSeq(input, from, Len(input))>>
    ELSE LET c == CHOOSE x \in cuts : \A y \in cuts : x <= y IN
         <<SubSeq(input, from, c - 1)>> \o SplitAt(input, cuts \ {c}, c + 1)

\* a well-formed stage: parsed alone it is one stage; when it is not the last
\* stage it has no trailing '&' and does not end in a backslash (which would
\* escape the '|' after it)
WellFormedStage(seg, last) ==
    LET r == ParseLine(seg) IN
    /\ r.err = NoError
    /\ r.cmd.Pipes = <<>>
    /\ last \/ (~r.cmd.Background /\ seg[Len(seg)] # BS)

\* C9: parsing cmd1 | cmd2 | ... | cmdN, N >= 1 well-formed stages, yields a
\* head Command for cmd1 with exactly N-1 successors, the k-th carrying the
\* name and arguments of stage k+1; stated for every way of cutting the input
\* at '|' characters into well-formed stages.
C9_PipelineSuccessors ==
    parser.pc \in {"done", "error"} =>
        \A cuts \in SUBSET {i \in 1..parser.length : parser.input[i] = "|"} :
            LET segs == SplitAt(parser.input, cuts, 1)
                n == Len(segs) IN
            (\A k \in 1..n : WellFormedStage(segs[k], k = n)) =>
                /\ parser.pc = "done"
                /\ Len(parser.cmd.Pipes) = n - 1
                /\ \A k \in 1..n :
                       /\ Stages(parser.cmd)[k].Name = ParseLine(segs[k]).cmd.Name
                       /\ Stages(parser.cmd)[k].Args = ParseLine(segs[k]).cmd.Args

C9_ThreeStagesParsed ==
    /\ parser.pc = "done"
    /\ Len(parser.cmd.Pipes) = 2
    /\ parser.cmd.Args # <<>>
    /\ parser.cmd.Pipes[1].Name # <<>>
    /\ parser.cmd.Pipes[2].Name # <<>>

----------------------------------------------------------------------------
(* Claims about the executor                                               *)

SelfExiting == {Word("printf"), Word("sleep"), Word("false")}
ExitingAtEOF == {Word("tr")}

\* a foreground pipeline whose first stage exits on its own and whose later
\* stages exit once they have read end of file
SourceThenFilters(cmd) ==
    /\ Len(cmd.Pipes) > 0
    /\ cmd.Name \in SelfExiting
    /\ \A k \in 1..Len(cmd.Pipes) : cmd.Pipes[k].Name \in ExitingAtEOF
    /\ \A k \in 1..Len(Stages(cmd)) : ~Stages(cmd)[k].Background

\* C1: a foreground pipeline of external commands, the first exiting on its
\* own and every later one at end of file on its stdin, eventually completes:
\* Execute returns to main.
C1_ForegroundPipelineCompletes ==
    (sh.mainpc = "execute" /\ sh.pc = "Execute" /\ SourceThenFilters(sh.cmd))
        ~> (sh.mainpc = "read" /\ sh.pc = "idle")

\* the kernel pipes of the running executePipeline, in the order it made them
PipeOf(j) == Len(os.kpipes) - (Len(sh.commands) - 1) + j

\* the number of stages executePipeline has started
Started ==
    IF sh.pc = "startCommands" THEN sh.i
    ELSE IF sh.pc = "waitGroup" THEN Len(sh.cmds) ELSE 0

\* the process of stage k (one-based) of the running pipeline
StagePid(k) == Len(os.procs) - Started + k

\* C2: in a pipeline of N stages wired through N-1 pipes, stage i (here k =
\* i+1) has the terminal as stdin if it is the first and else the read end of
\* pipe i-1, the terminal as stdout if it is the last and else the write end
\* of pipe i, and the terminal as stderr; the Cmd, the started process and
\* the kernel's table of who holds which pipe end all say so, and a stage
\* holds no other pipe end.
C2_PipelineWiring ==
    sh.pc \in {"buildCommands", "startCommands", "waitGroup"} =>
        LET n == Len(sh.commands) IN
        /\ Len(sh.pipes) = n - 1
        /\ \A k \in 1..Len(sh.cmds) :
              /\ sh.cmds[k].Stdin = IF k = 1 THEN Stdin ELSE PipeFd(PipeOf(k - 1), "r")
              /\ sh.cmds[k].Stdout = IF k = n THEN Stdout ELSE PipeFd(PipeOf(k), "w")
              /\ sh.cmds[k].Stderr = Stderr
        /\ \A k \in 1..Started :
              LET pid == StagePid(k) IN
              /\ os.procs[pid].stdin = sh.cmds[k].Stdin
              /\ os.procs[pid].stdout = sh.cmds[k].Stdout
              /\ os.procs[pid].stderr = sh.cmds[k].Stderr
              /\ \A j \in 1..Len(os.kpipes) :
                    /\ pid \in os.kpipes[j].r => (k > 1 /\ j = PipeOf(k - 1))
                    /\ pid \in os.kpipes[j].w => (k < n /\ j = PipeOf(k))
              /\ os.procs[pid].status = "running" =>
                    /\ k > 1 => pid \in os.kpipes[PipeOf(k - 1)].r
                    /\ k < n => pid \in os.kpipes[PipeOf(k)].w

C2_ThreeStagesRunning ==
    /\ sh.pc = "waitGroup"
    /\ Len(sh.cmds) = 3
    /\ \A k \in 1..3 : os.procs[StagePid(k)].status = "running"

\* C3: while a single-stage command with the background flag is executed, the
\* caller's thread always has a step to take: nothing it does waits for the
\* child to exit.
C3_BackgroundDoesNotWait ==
    (sh.mainpc = "execute" /\ Len(sh.cmd.Pipes) = 0 /\ sh.cmd.Background)
        => ENABLED ExecutorStep

\* Execute has returned to main while the background child still runs
C3_ReturnedWhileChildRuns ==
    /\ sh.mainpc = "read"
    /\ sh.pc = "idle"
    /\ sh.err = NilError
    /\ sh.cmd.Background
    /\ \E pid \in Running(os) : os.procs[pid].stdin = DevNull

EchoLine == <<"echo", " ", "hi", " ", ">", " ", "out.txt">>
CatLine == <<"cat", " ", "<", " ", "out.txt">>

\* C4: after the line `echo hi > out.txt` the file out.txt exists and holds
\* exactly hi\n, and after the line `cat < out.txt` that follows it the last
\* thing written to the terminal is the same hi\n.
C4_RedirectRoundTrip ==
    /\ (sh.input = EchoLine /\ sh.mainpc = "read") =>
          /\ Word("out.txt") \in DOMAIN os.files
          /\ os.files[Word("out.txt")] = <<"hi", "\n">>
    /\ (sh.input = CatLine /\ sh.mainpc = "read" /\ sh.history = <<EchoLine, CatLine>>) =>
          /\ os.term # <<>>
          /\ os.term[Len(os.term)] = TermLine("out", <<"hi", "\n">>, 0)

\* no file that could be run carries the name: no literal path, no match in a
\* PATH directory
ResolvesToNothing(name) ==
    IF "/" \in Range(name)
    THEN /\ name \notin ExecutableFiles
         /\ FilepathJoin(sh.workingDir, name) \notin ExecutableFiles
    ELSE \A d \in Range(Split(Getenv(os, Word("PATH")), ":")) :
             FilepathJoin(d, name) \notin ExecutableFiles

\* C5: when the name of a single-stage command is no built-in and resolves to
\* no executable, no step of that execution adds a child process, and the
\* execution ends with the error "command not found: <name>".
C5_NotFoundSpawnsNothing ==
    [][ LET name == ExpandAliases(sh.cmd, sh.aliases).Name IN
        (/\ sh.mainpc = "execute"
         /\ Len(sh.cmd.Pipes) = 0
         /\ ~IsBuiltin(name)
         /\ ResolvesToNothing(name))
        => /\ Len(os'.procs) = Len(os.procs)
           /\ sh'.mainpc # "execute" =>
                 /\ sh'.mainpc = "read"
                 /\ sh'.err = <<"command not found: ">> \o name ]_vars

C5_NotFoundReported ==
    /\ sh.mainpc = "read"
    /\ sh.input = Word("nosuch")
    /\ sh.err = <<"command not found: ", "nosuch">>
    /\ os.procs = <<>>

\* C7: while a multi-stage pipeline entered with a trailing '&' is executed,
\* the caller's thread always has a step to take: it is never blocked on the
\* exit of a stage.
C7_BackgroundPipelineDoesNotWait ==
    (/\ sh.mainpc = "execute"
     /\ Len(sh.cmd.Pipes) > 0
     /\ sh.input[Len(sh.input)] = "&")
    => ENABLED ExecutorStep

----------------------------------------------------------------------------
(* Further claims about the parser                                         *)

\* C11: a token that ends with no open quote and with zero characters makes
\* parse fail with "empty token" and no Command; and in every Command parse
\* returns, the name of every stage is non-empty and no argument is empty.
C11_EmptyTokenRejected ==
    /\ [][ (/\ parser.pc = "tokenLoop"
            /\ parser'.pc # "tokenLoop"
            /\ ~parser.quoted
            /\ parser.result = <<>>)
           => (/\ parser'.pc = "error"
               /\ parser'.err = "empty token"
               /\ parser'.cmd = NilCommand) ]_vars
    /\ [](parser.pc = "done" =>
            \A k \in 1..Len(Stages(parser.cmd)) :
                /\ Stages(parser.cmd)[k].Name # <<>>
                /\ \A j \in 1..Len(Stages(parser.cmd)[k].Args) :
                       Stages(parser.cmd)[k].Args[j] # <<>>)

\* the input a "" : the argument is a pair of quotes around nothing
C11_EmptyQuotesRejected ==
    /\ parser.input = <<"a", " ", DQ, DQ>>
    /\ parser.pc = "error"
    /\ parser.err = "empty token"
    /\ parser.cmd = NilCommand
    /\ parser.cur.Name = <<"a">>

AliasLine == <<"alias", " ", "p", "=", "printf">>

----------------------------------------------------------------------------
(* Further claims about the executor and main's loop                       *)

\* the lines the shell itself has printed as errors
ErrorLines == {k \in 1..Len(os.term) : os.term[k].kind = "error"}

\* C13: when the line `false` (a foreground external command that exits
\* with status 1) has been executed and main is reading the next line,
\* Execute has returned no error to main and the shell has printed no error
\* line.
C13_NonzeroExitNotReported ==
    (sh.input = Word("false") /\ sh.nlines = 1 /\ sh.mainpc = "read")
        => /\ sh.err = NilError
           /\ ErrorLines = {}

RunsExit ==
    /\ Len(sh.cmd.Pipes) = 0
    /\ ExpandAliases(sh.cmd, sh.aliases).Name = Word("exit")

PipeRefused == Word("pipe: too many open files")
UnsupportedBuiltinInPipeline == Word("built-in commands in pipelines not yet supported")

\* C15: when the first line was a pipeline with a stage that names a
\* built-in and Execute has returned (the system having refused it no
\* pipe), the error is "built-in commands in pipelines not yet supported"
\* and no process of any stage has been started.
C15_BuiltinInPipelineRefused ==
    (/\ sh.nlines = 1 /\ sh.mainpc = "read" /\ sh.pc = "idle"
     /\ Len(sh.cmd.Pipes) > 0
     /\ \E k \in 1..Len(Stages(sh.cmd)) : IsBuiltin(Stages(sh.cmd)[k].Name)
     /\ sh.err # PipeRefused)
    => /\ sh.err = UnsupportedBuiltinInPipeline
       /\ os.procs = <<>>

\* the Command the specification's expansion rule gives: for an alias with
\* the words w1..wk, k >= 1, the name w1 and the arguments w2..wk, a1..an
Expanded(cmd, aliases) ==
    IF cmd.Name \in DOMAIN aliases /\ Fields(aliases[cmd.Name]) # <<>>
    THEN LET w == Fields(aliases[cmd.Name]) IN
         [cmd EXCEPT !.Name = w[1], !.Args = SubSeq(w, 2, Len(w)) \o cmd.Args]
    ELSE cmd

\* C16: the first step of executing a single-stage Command leaves it
\* alias-expanded by the rule, once: for a name that is an alias with words
\* w1..wk the name is w1 and the arguments are w2..wk then a1..an, w1 is not
\* looked up again, a name that is no alias leaves the Command as parsed;
\* and the expanded name and arguments are what is classified and run.
C16_AliasExpansion ==
    [][ (/\ sh.mainpc = "execute" /\ sh.pc = "Execute" /\ sh'.pc # "Execute"
         /\ Len(sh.cmd.Pipes) = 0) =>
          LET e == Expanded(sh.cmd, sh.aliases) IN
          /\ sh'.cmd = e
          /\ sh'.pc \in {"executeForeground", "executeBackground"} =>
                /\ ~IsBuiltin(e.Name)
                /\ sh'.execCmd.Path = findExecutable(Cur, e.Name)
                /\ sh'.execCmd.Args = e.Args ]_vars

PrintfAlias == <<"alias", " ", "printf", "=", DQ, "printf", " ", "b", DQ>>

\* `printf hi > out.txt` under the alias printf = "printf b" runs printf
\* with b, hi
C16_SelfAliasExpandedOnce ==
    /\ sh.history = <<PrintfAlias, <<"printf", " ", "hi", " ", ">", " ", "out.txt">>>>
    /\ sh.aliases = MapSet(EmptyMap, Word("printf"), <<"printf", " ", "b">>)
    /\ sh.pc = "foregroundWait"
    /\ sh.cmd.Name = Word("printf")
    /\ sh.cmd.Args = <<Word("b"), Word("hi")>>
    /\ os.procs[sh.child].path = Bin("printf")
    /\ os.procs[sh.child].args = <<Word("b"), Word("hi")>>

\* C17: in the Cmds executePipeline builds, the head's is that of the
\* alias-expanded head (the expanded name resolved, the expansion's words
\* before the head's arguments), and each successor's is that of the
\* successor as parsed.
C17_PipelineHeadExpanded ==
    (sh.mainpc = "execute" /\ Len(sh.cmd.Pipes) > 0 /\ Len(sh.cmds) >= 1) =>
        LET e == Expanded(sh.cmd, sh.aliases) IN
        /\ sh.cmds[1].Path = findExecutable(Cur, e.Name)
        /\ sh.cmds[1].Args = e.Args
        /\ \A k \in 2..Len(sh.cmds) :
              /\ sh.cmds[k].Path = findExecutable(Cur, sh.cmd.Pipes[k - 1].Name)
              /\ sh.cmds[k].Args = sh.cmd.Pipes[k - 1].Args

\* the pipe ends the shell process itself holds open
ShellHolds ==
    {j \in 1..Len(os.kpipes) : ShellPid \in os.kpipes[j].r \cup os.kpipes[j].w}

\* C18: whenever Execute is not running, on whatever path it returned, the
\* shell process holds no end of any pipe open.
C18_PipeEndsClosedAtReturn ==
    sh.pc = "idle" => ShellHolds = {}

\* C19: when the first line was a pipeline and Execute has returned the
\* failure to start one of its stages, every stage it had started has
\* exited and has been waited for.
C19_SpawnFailureWaitsForStarted ==
    (/\ sh.nlines = 1 /\ sh.mainpc = "read" /\ sh.pc = "idle"
     /\ Len(sh.cmd.Pipes) > 0
     /\ sh.err # NilError /\ sh.err[1] = "exec ")
    => \A pid \in 1..Len(os.procs) :
           os.procs[pid].status = "exited" /\ os.procs[pid].reaped

\* C20: no child is ever marked for cancellation while it runs, and none
\* ends killed: a child ends only by exiting on its own.
C20_NoCancellationIntoChild ==
    \A pid \in 1..Len(os.procs) :
        /\ os.procs[pid].status = "running" => os.procs[pid].ctx # "cancelled"
        /\ os.procs[pid].status = "exited" => os.procs[pid].code # Killed

----------------------------------------------------------------------------
(* Claims about the order of starts and joins, redirects and the registry  *)

\* C21: while executePipeline creates pipes, builds and starts its stages
\* the calling thread always has a step to take (it waits for no stage);
\* when it stands at its join every one of the N stages has been started;
\* and it leaves the join only when all N stages have exited.
C21_StartAllThenJoin ==
    /\ []((sh.mainpc = "execute"
             /\ sh.pc \in {"createPipes", "buildCommands", "startCommands"})
            => ENABLED ExecutorStep)
    /\ [](sh.pc = "waitGroup" =>
            /\ Len(sh.cmds) = Len(sh.commands)
            /\ Len(os.procs) >= Len(sh.commands))
    /\ [][ (sh.pc = "waitGroup" /\ sh'.pc # "waitGroup") =>
              \A k \in 1..Len(sh.commands) :
                  os.procs[StagePid(k)].status = "exited" ]_vars

\* a two-stage pipeline has been run to its end: Execute returned without
\* an error after both stages had exited
C21_PipelineJoined ==
    /\ sh.nlines = 1
    /\ sh.mainpc = "read" /\ sh.pc = "idle" /\ sh.err = NilError
    /\ Len(sh.cmd.Pipes) = 1
    /\ Len(os.procs) = 2
    /\ \A pid \in 1..2 : os.procs[pid].status = "exited" /\ os.procs[pid].reaped

TerminalOrPipe(fd) == fd.kind \in {"tty", "pipe"}

\* C22: while a pipeline is executed no step of the shell opens, creates or
\* truncates a file, whatever redirects its stages carry; the streams of
\* every Cmd it builds are the terminal or a pipe end; and it never returns
\* the failure to open a redirect target.
C22_NoRedirectInPipeline ==
    /\ [][ (sh.mainpc = "execute" /\ Len(sh.cmd.Pipes) > 0 /\ sh' # sh) =>
              /\ os'.files = os.files
              /\ (sh'.pc = "idle" /\ sh'.err # NilError) => sh'.err[1] # "open " ]_vars
    /\ []((sh.mainpc = "execute" /\ Len(sh.cmd.Pipes) > 0) =>
            \A k \in 1..Len(sh.cmds) :
                /\ TerminalOrPipe(sh.cmds[k].Stdin)
                /\ TerminalOrPipe(sh.cmds[k].Stdout)
                /\ TerminalOrPipe(sh.cmds[k].Stderr))

\* a pipeline whose first stage carries `> out.txt` has all its stages
\* started, and there is no file out.txt
C22_RedirectedStageRunsUnredirected ==
    /\ sh.pc = "waitGroup"
    /\ sh.cmd.Redirect = Redirect("RedirectOut", Word("out.txt"))
    /\ os.procs[StagePid(1)].stdout.kind = "pipe"
    /\ Word("out.txt") \notin DOMAIN os.files

\* C23: a single-stage command whose alias-expanded name is in the built-in
\* registry never ends with the error "unknown built-in command: <name>".
C23_EveryBuiltinHasHandler ==
    (sh.pc = "idle" /\ sh.err # NilError /\ IsBuiltin(sh.cmd.Name)) =>
        sh.err[1] # "unknown built-in command: "

----------------------------------------------------------------------------
(* Claims about the scan                                                   *)

\* C24: for every input that is empty or holds whitespace only, parse fails
\* with "empty command".
C24_BlankInputIsEmptyInput ==
    (/\ parser.pc \in {"done", "error"}
     /\ \A i \in 1..parser.length : IsSpace(parser.input[i]))
    => /\ parser.pc = "error"
       /\ parser.err = "empty command"

\* the input is one quoted run: a quote, one or more characters none of
\* which is that quote, and the same quote again
OneQuotedRun(input) ==
    /\ Len(input) >= 3
    /\ input[1] \in {DQ, SQ}
    /\ input[Len(input)] = input[1]
    /\ \A i \in 2..(Len(input) - 1) : input[i] # input[1]

\* C25: an input that is one quoted run parses to a command whose name is
\* exactly the characters between the quotes: a backslash, the other kind
\* of quote, whitespace and | > < & among them are literal content, and
\* the run ends at the first matching quote.
C25_QuotedRunIsLiteral ==
    (parser.pc \in {"done", "error"} /\ OneQuotedRun(parser.input))
    => /\ parser.pc = "done"
       /\ parser.cmd.Name = SubSeq(parser.input, 2, parser.length - 1)
       /\ parser.cmd.Args = <<>>

\* the positions where a run of '>' begins: the redirection operators of an
\* input over 'a', ' ' and '>' with no more than two '>' in a row
OperatorStarts(input) ==
    {i \in 1..Len(input) : input[i] = ">" /\ (i = 1 \/ input[i - 1] # ">")}

\* the word that follows position k: spaces skipped, then the characters up
\* to the next space, '>' or the end
RECURSIVE WordAfter(_, _, _)
WordAfter(input, k, started) ==
    IF k > Len(input) THEN <<>>
    ELSE IF input[k] = " "
    THEN IF started THEN <<>> ELSE WordAfter(input, k + 1, FALSE)
    ELSE IF input[k] = ">" THEN <<>>
    ELSE <<input[k]>> \o WordAfter(input, k + 1, TRUE)

SeveralRedirects(input) ==
    /\ \A i \in 1..Len(input) : input[i] \in {"a", " ", ">"}
    /\ Len(input) >= 1 /\ input[1] = "a"
    /\ \A i \in 1..(Len(input) - 2) :
          ~(input[i] = ">" /\ input[i + 1] = ">" /\ input[i + 2] = ">")
    /\ Cardinality(OperatorStarts(input)) >= 2
    /\ input[Len(input)] = "a"

\* C26: when a one-stage input over 'a', ' ' and '>' with two or more
\* redirection operators parses, the Command's redirect is the last
\* operator of the input (`>` or `>>`) with the word after it as target,
\* and no argument holds a '>'.
C26_LastRedirectWins ==
    (parser.pc = "done" /\ SeveralRedirects(parser.input)) =>
        LET k == CHOOSE i \in OperatorStarts(parser.input) :
                     \A j \in OperatorStarts(parser.input) : j <= i
            append == k < parser.length /\ parser.input[k + 1] = ">"
        IN /\ parser.cmd.Redirect =
                 Redirect(IF append THEN "RedirectAppend" ELSE "RedirectOut",
                          WordAfter(parser.input, IF append THEN k + 2 ELSE k + 1, FALSE))
           /\ CountInArgs(parser.cmd, ">") = 0

----------------------------------------------------------------------------
(* The session's claims, under SessionSpec.                                *)

\* the directory a cd with these arguments asks for, in the state before it
CdTarget(args) ==
    IF args = <<>> THEN Getenv(os, Word("HOME"))
    ELSE IF args[1] = Word("-") THEN sh.previousDir
    ELSE args[1]

CdStep == sh'.pc = "Cd" /\ sh'.nlines = sh.nlines + 1

\* C27: a cd succeeds exactly when the directory it asks for exists; a
\* successful cd makes the working directory held before it the previous
\* directory and the directory asked for the working directory, so that a
\* successful `cd -` swaps the two and a second one restores them; a failing
\* cd (missing target, HOME unset, `cd -` without a previous directory)
\* leaves both as they were.
C27_CdMovesOrLeaves ==
    /\ [][CdStep =>
            LET target == CdTarget(sh'.cmd.Args) IN
            /\ (sh'.err = NilError) <=> (target \in Directories)
            /\ sh'.err = NilError =>
                   /\ sh'.previousDir = sh.workingDir
                   /\ sh'.workingDir = target
                   /\ os'.cwd = target
            /\ sh'.err # NilError =>
                   /\ sh'.workingDir = sh.workingDir
                   /\ sh'.previousDir = sh.previousDir
                   /\ os'.cwd = os.cwd]_vars
    /\ [](sh.previousDir # <<>> =>
            LET once == Cd(Cur, <<Word("-")>>)
                twice == Cd(once.st, <<Word("-")>>)
            IN /\ once.err = NilError /\ twice.err = NilError
               /\ once.st.sh.workingDir = sh.previousDir
               /\ once.st.sh.previousDir = sh.workingDir
               /\ twice.st.sh.workingDir = sh.workingDir
               /\ twice.st.sh.previousDir = sh.previousDir)

\* cd /bin, `cd -` and `cd -` again from /home: back in /bin with /home behind
C27_SwappedTwice ==
    /\ sh.pc = "Cd" /\ sh.nlines = 3
    /\ sh.cmd.Args = <<Word("-")>> /\ sh.err = NilError
    /\ sh.workingDir = <<"/", "bin">> /\ sh.previousDir = <<"/", "home">>
    /\ Len(os.term) = 2

\* the n most recent entries of a history, oldest first
MostRecent(h, n) == [k \in 1..n |-> h[Len(h) - n + k]]

AtMost(h, limit) == MostRecent(h, IF Len(h) < limit THEN Len(h) ELSE limit)

\* C28: the history limit is always positive and the history never longer
\* than it; AddHistory appends its line unless the line is empty or equals
\* the last entry, and SetHistoryLimit sets a positive limit and ignores any
\* other; after either the history is the most recent entries of what it
\* would be without a limit, as many as the limit allows, in their order.
C28_HistoryWithinLimit ==
    /\ [](sh.historyLimit > 0 /\ Len(sh.history) <= sh.historyLimit)
    /\ [][(sh'.pc = "AddHistory" /\ sh'.nlines = sh.nlines + 1) =>
            LET line == sh'.input
                last == IF sh.history = <<>> THEN <<>> ELSE sh.history[Len(sh.history)]
                grown == IF line = <<>> \/ line = last
                         THEN sh.history ELSE sh.history \o <<line>>
            IN /\ sh'.historyLimit = sh.historyLimit
               /\ sh'.history = AtMost(grown, sh.historyLimit)]_vars
    /\ [][(sh'.pc = "SetHistoryLimit" /\ sh'.nlines = sh.nlines + 1) =>
            LET limit == sh'.i IN
            /\ sh'.historyLimit = IF limit > 0 THEN limit ELSE sh.historyLimit
            /\ sh'.history = AtMost(sh.history, sh'.historyLimit)]_vars

\* a history at its limit of two after AddHistory("pwd"): "help" and "pwd"
\* are kept in that order
C28_FullHistory ==
    /\ sh.pc = "AddHistory" /\ sh.input = Word("pwd") /\ sh.nlines = MaxCalls
    /\ sh.historyLimit = 2
    /\ sh.history = <<Word("help"), Word("pwd")>>

----------------------------------------------------------------------------
(* The scan of the parser, under ParserFairSpec.                           *)

ParserReturned == parser.pc \in {"done", "error"}

\* what one step of the parser may do to the scan position
ScanStep ==
    /\ parser'.pos >= parser.pos /\ parser'.pos <= parser.length
    /\ (parser.pc = "tokenLoop" /\ parser'.pc = "tokenLoop") =>
           parser'.pos > parser.pos
    /\ (parser.pc = "tokenLoop" /\ parser.result = <<>> /\ ~parser.quoted) =>
           (parser'.pos > parser.pos \/ parser'.pc = "error")
    /\ (parser.pc = "tokenLoop" /\ parser'.pc = "args") =>
           parser'.result # <<>>
    /\ (parser.pc = "args" /\ parser'.pc = "args") =>
           parser'.pos > parser.pos
    /\ (parser.pc = "args" /\ parser'.pc = "parseToken") =>
           (parser'.pos < parser.length /\ ~IsSpace(current(parser')))
    /\ (parser.pc = "pipes" /\ parser'.pc # "done") =>
           parser'.pos > parser.pos

\* C29: the scan position never decreases; an iteration of the token loop,
\* of the argument loop or of the pipe loop that does not return moves the
\* position forward (a token handed back to the argument loop is not empty,
\* and the first iteration of a token's loop consumes a character or fails);
\* a successful parse ends with the position at the length of the input;
\* and every parse returns.
C29_ScanAdvancesAndEnds ==
    /\ [][ScanStep]_vars
    /\ [](parser.pc = "done" =>
              (parser.pos = parser.length /\ parser.err = NoError))
    /\ <>ParserReturned

\* a parse of the longest pipeline input that succeeded with three stages
C29_LongScanDone ==
    /\ parser.pc = "done" /\ parser.length = MaxPipeLen
    /\ parser.pos = parser.length
    /\ Len(parser.cmd.Pipes) = 2

----------------------------------------------------------------------------
(* Background jobs on the terminal, under ShellFairSpec.                   *)

\* the process ids a run can use: at most three stages for each line
Pids == 1..(3 * (MaxLines + 1))

\* the places of the lines of one kind about one process on a terminal
LinesOf(term, kind, pid) ==
    {k \in 1..Len(term) : term[k].kind = kind /\ term[k].pid = pid}

\* the detached waiter of a background command is still to print
Pending(pid) == \E w \in sh.waiters : w.pid = pid /\ w.kind = "background"

PendingExited(pid) == Pending(pid) /\ os.procs[pid].status = "exited"

Noticed(pid) == LinesOf(os.term, "done", pid) # {}

\* the announcement is on the terminal when executeBackground returns; a
\* completion notice is written only by the step of the detached waiter of
\* its job, whose child has exited, and that step writes it
JobStep ==
    /\ (sh.pc = "backgroundStarted" /\ sh'.pc # "backgroundStarted") =>
           LinesOf(os'.term, "job", sh.child) # {}
    /\ \A pid \in Pids :
           LinesOf(os'.term, "done", pid) # LinesOf(os.term, "done", pid) =>
               /\ \E w \in sh.waiters \ sh'.waiters :
                      w.pid = pid /\ w.kind = "background"
               /\ os.procs[pid].status = "exited"
    /\ \A w \in sh.waiters \ sh'.waiters :
           w.kind = "background" => LinesOf(os'.term, "done", w.pid) # {}

\* a job is announced once and before its completion notice, which is
\* printed at most once, after the child has exited, and not while the
\* waiter is still to run
JobLinesInOrder ==
    \A pid \in Pids :
        /\ Cardinality(LinesOf(os.term, "job", pid)) <= 1
        /\ Cardinality(LinesOf(os.term, "done", pid)) <= 1
        /\ \A d \in LinesOf(os.term, "done", pid) :
               /\ \E j \in LinesOf(os.term, "job", pid) : j < d
               /\ os.procs[pid].status = "exited"
        /\ Pending(pid) =>
               (LinesOf(os.term, "job", pid) # {} /\ ~Noticed(pid))

\* no waiter of a background command whose child has exited is still to print
NoOverdue == \A pid \in Pids : ~PendingExited(pid)

\* C30 as stated, for the first process of a run: its announcement is
\* printed before execute returns and before its completion notice; the
\* notice is printed once, by the detached waiter, only after the child has
\* exited; and once the child has exited while the shell is running, the
\* notice is eventually printed.
C30_NoticeFollowsEveryExit ==
    /\ []JobLinesInOrder
    /\ [][JobStep]_vars
    /\ (PendingExited(1) /\ ShellAlive) ~> Noticed(1)

\* C30, amended: the same order and the same single notice for every
\* background command; a waiter whose child has exited does not stay
\* without its notice for ever while the shell runs: the notice is printed
\* unless the shell ends first (end of input or exit), which ends the
\* waiter with it.
C30_NoticeUnlessShellEnds ==
    /\ []JobLinesInOrder
    /\ [][JobStep]_vars
    /\ <>[](NoOverdue \/ ~ShellAlive)

\* a job announced and, after its child exited, noticed, the shell still running
C30_AnnouncedThenNoticed ==
    /\ ShellAlive
    /\ \E pid \in DOMAIN os.procs :
           /\ os.procs[pid].status = "exited"
           /\ \E j \in LinesOf(os.term, "job", pid) :
                  \E d \in LinesOf(os.term, "done", pid) : j < d

====
